---- MODULE Spec2Model ----
(***************************************************************************)
(* A model of the tool synchronization engine of setup-machine:            *)
(* SyncTools (internal/installer/sync.go), installTool                      *)
(* (internal/installer/install.go), uninstallTool (sync.go) and the state  *)
(* file (internal/config/load_state.go).                                   *)
(*                                                                         *)
(* Strings that the code builds or inspects (paths, command output) are    *)
(* sequences of tokens: "/" is a token of its own and every other token is *)
(* a run of characters holding no "/".  The empty string is <<>>.          *)
(***************************************************************************)
EXTENDS Naturals, Sequences, FiniteSets, TLC

\* ------------------------------------------------------------------ bounds

\* Longest desired tool list drawn from CoreTools.
MaxTools == 2

\* Most tools installed alongside the tool of a run over every source kind.
MaxCompanions == 1

\* ------------------------------------------------------------------ strings

Slash == "/"

RECURSIVE Concat(_)
\* The concatenation of a sequence of strings.
Concat(ss) ==
    IF ss = <<>> THEN <<>> ELSE Head(ss) \o Concat(Tail(ss))

\* strings.HasPrefix
HasPrefix(s, p) ==
    /\ Len(p) <= Len(s)
    /\ SubSeq(s, 1, Len(p)) = p

\* strings.HasSuffix
HasSuffix(s, x) ==
    /\ Len(x) <= Len(s)
    /\ SubSeq(s, Len(s) - Len(x) + 1, Len(s)) = x

RECURSIVE Clean(_)
\* filepath.Clean on paths holding no "." or ".." element: runs of "/" collapse
\* to one and a trailing "/" is dropped, except for the root; "" becomes ".".
Clean(p) ==
    IF p = <<>> THEN <<".">>
    ELSE IF Len(p) = 1 THEN p
    ELSE IF p[1] = Slash /\ p[2] = Slash THEN Clean(Tail(p))
    ELSE IF Len(p) = 2 /\ p[2] = Slash THEN <<p[1]>>
    ELSE LET rest == Clean(Tail(p))
         IN  IF rest = <<Slash>> THEN <<p[1]>> ELSE <<p[1]>> \o rest

RECURSIVE JoinSep(_)
JoinSep(elems) ==
    IF elems = <<>> THEN <<>>
    ELSE IF Len(elems) = 1 THEN elems[1]
    ELSE elems[1] \o <<Slash>> \o JoinSep(Tail(elems))

\* filepath.Join: empty elements are ignored, the rest joined by "/" and cleaned;
\* the result is "" when every element is empty.
Join(elems) ==
    LET nonEmpty == SelectSeq(elems, LAMBDA e : e # <<>>)
    IN  IF nonEmpty = <<>> THEN <<>> ELSE Clean(JoinSep(nonEmpty))

RECURSIVE LastSlash(_)
\* The index of the last "/" of p, 0 when it has none.
LastSlash(p) ==
    IF p = <<>> THEN 0
    ELSE IF p[Len(p)] = Slash THEN Len(p)
    ELSE LastSlash(SubSeq(p, 1, Len(p) - 1))

RECURSIVE StripTrailingSlashes(_)
StripTrailingSlashes(p) ==
    IF p # <<>> /\ p[Len(p)] = Slash
    THEN StripTrailingSlashes(SubSeq(p, 1, Len(p) - 1))
    ELSE p

\* filepath.Base / path.Base: the last element of the path; "." for the empty
\* path and "/" for a path of slashes only.
Base(p) ==
    IF p = <<>> THEN <<".">>
    ELSE LET q == StripTrailingSlashes(p)
         IN  IF q = <<>> THEN <<Slash>>
             ELSE SubSeq(q, LastSlash(q) + 1, Len(q))

\* filepath.Dir of a cleaned path.
Dir(p) ==
    LET i == LastSlash(p)
    IN  IF i = 0 THEN <<".">>
        ELSE IF i = 1 THEN <<Slash>>
        ELSE Clean(SubSeq(p, 1, i))

\* A tool name as a string: one token, or the empty string.
NameStr(n) == IF n = "" THEN <<>> ELSE <<n>>

\* strings.Fields on command output whose tokens are either white space or a
\* whole field.
Fields(s) == SelectSeq(s, LAMBDA t : t \notin {" ", "\n", "\t"})

\* ------------------------------------------------------------------ data

Names == {"a", "b"}

KnownSources == {"github", "url", "brew", "go", "rustup"}

\* A source kind installTool does not know ("apt" stands for every such kind).
Sources == KnownSources \cup {"apt"}

PkgURL == <<"https:", Slash, Slash, "h", Slash, "t", ".pkg">>

ArchiveURL == <<"https:", Slash, Slash, "h", Slash, "t", ".tar.gz">>

\* config.Tool.  Repo and Tag only shape the arguments of the release query and of
\* `go install`; they are left out.
Tool(n, v, s, u) == [name |-> n, version |-> v, source |-> s, url |-> u]

URLsOf(s) == IF s = "url" THEN {PkgURL, ArchiveURL} ELSE {<<>>}

\* Every source kind, under one name, with no version or the "latest" sentinel.
AllTools ==
    UNION {{Tool("a", v, s, u) : u \in URLsOf(s), v \in {"", "latest"}} : s \in Sources}

\* The tools of the concurrent runs: a package-manager tool in two versions, a
\* toolchain component and a tool of an unknown source kind.
CoreTools ==
    {Tool("a", "1", "brew", <<>>), Tool("a", "2", "brew", <<>>),
     Tool("b", "1", "rustup", <<>>), Tool("b", "1", "apt", <<>>)}

RECURSIVE SeqsUpTo(_, _)
\* The sequences over S of length at most n.
SeqsUpTo(S, n) ==
    IF n = 0 THEN {<<>>}
    ELSE LET shorter == SeqsUpTo(S, n - 1)
         IN  shorter \cup {Append(q, x) : q \in {r \in shorter : Len(r) = n - 1}, x \in S}

\* The desired lists of the concurrent runs.
ToolLists == SeqsUpTo(CoreTools, MaxTools)

\* A tool installed alongside the tool of a run over every source kind.
Companion == Tool("b", "1", "brew", <<>>)

\* The desired lists of the runs over every source kind: a tool of any kind,
\* followed by companions.
KindToolLists ==
    {<<t>> \o rest : t \in AllTools, rest \in SeqsUpTo({Companion}, MaxCompanions)}

\* os.Getenv("HOME")
Homes == {<<Slash, "Users", Slash, "u">>, <<>>}

\* user.Current().HomeDir
UsrHomeDir == <<Slash, "Users", Slash, "u">>

\* state.ToolState / config.ToolState
ToolState(v, p, f) == [Version |-> v, InstallPath |-> p, InstalledByDevSetup |-> f]

BrewBin == <<Slash, "opt", Slash, "homebrew", Slash, "bin", Slash>>

UsrLocalBin == <<Slash, "usr", Slash, "local", Slash, "bin">>

Applications == <<Slash, "Applications">>

\* ------------------------------------------------------------------ installTool

\* The steps of installTool that can fail, per source kind, in the order the code
\* takes them.
StepsOf(tool) ==
    CASE tool.source = "github" ->
           <<"http.Get", "StatusCode", "json.Decode", "matchAsset", "curl",
             "extract", "findExecutable", "installExecutable">>
      [] tool.source = "url" ->
           IF HasSuffix(tool.url, <<".pkg">>)
           THEN <<"curl", "sudo installer">>
           ELSE <<"curl", "extractAndInstall", "chmod">>
      [] tool.source = "brew" -> <<"brew install">>
      [] tool.source = "go" -> <<"go install">>
      [] tool.source = "rustup" ->
           <<"rustup component add", "rustup show active-toolchain",
             "os.Stat", "os.MkdirAll", "os.Symlink">>
      [] OTHER -> <<>>

\* Standard output of `rustup show active-toolchain` when it exits successfully.
ToolchainOutputs ==
    {<<>>, <<"\n">>, <<"stable-aarch64-apple-darwin", " ", "(default)", "\n">>}

\* The outcomes of what installTool calls: failAt is the step that fails (0: none),
\* tcOut the toolchain query's output, fallback whether the copy into
\* /usr/local/bin fails and the binary goes to the user's bin directory, exe the
\* executable found in the archive.
ExtOf(tool) ==
    [failAt : 0 .. Len(StepsOf(tool)),
     tcOut : IF tool.source = "rustup" THEN ToolchainOutputs ELSE {<<>>},
     fallback : IF tool.source \in {"github", "url"} THEN BOOLEAN ELSE {FALSE},
     exe : IF tool.source \in {"github", "url"}
           THEN {<<Slash, "tmp", Slash, "x", Slash, "t">>}
           ELSE {<<>>}]

\* What an installTool call did: whether it returned ok, the path it returned, the
\* steps it took and whether it panicked instead of returning.
Result(ok, path, steps, panicked) ==
    [ok |-> ok, path |-> path, steps |-> steps, panicked |-> panicked]

Failed(tool, ext) ==
    Result(FALSE, <<>>, SubSeq(StepsOf(tool), 1, ext.failAt), FALSE)

Succeeded(tool, path) == Result(TRUE, path, StepsOf(tool), FALSE)

\* downloadFromGitHub: installExecutable(execPath, filepath.Base(execPath)).
InstallGitHub(tool, home, ext) ==
    IF ext.failAt # 0 THEN Failed(tool, ext)
    ELSE Succeeded(tool,
           Join(<<IF ext.fallback THEN Join(<<UsrHomeDir, <<"bin">>>>) ELSE UsrLocalBin,
                  Base(ext.exe)>>))

\* case "url": an installer package, or an archive through extractAndInstall.
InstallURL(tool, home, ext) ==
    IF ext.failAt # 0 THEN Failed(tool, ext)
    ELSE IF HasSuffix(tool.url, <<".pkg">>) THEN Succeeded(tool, Applications)
    ELSE Succeeded(tool,
           Join(<<IF ext.fallback THEN Join(<<home, <<"bin">>>>) ELSE UsrLocalBin,
                  Base(ext.exe)>>))

\* case "brew"
InstallBrew(tool, home, ext) ==
    IF ext.failAt # 0 THEN Failed(tool, ext)
    ELSE Succeeded(tool, BrewBin \o NameStr(tool.name))

\* case "go"
InstallGo(tool, home, ext) ==
    IF ext.failAt # 0 THEN Failed(tool, ext)
    ELSE Succeeded(tool, Join(<<Join(<<home, <<"go">>, <<"bin">>>>), NameStr(tool.name)>>))

\* case "rustup": strings.Fields(string(toolchainOut))[0] indexes an empty slice
\* when the toolchain query prints nothing.
InstallRustup(tool, home, ext) ==
    IF ext.failAt \in {1, 2} THEN Failed(tool, ext)
    ELSE IF Fields(ext.tcOut) = <<>>
         THEN Result(FALSE, <<>>, SubSeq(StepsOf(tool), 1, 2), TRUE)
    ELSE IF ext.failAt # 0 THEN Failed(tool, ext)
    ELSE Succeeded(tool, Join(<<home, <<".cargo">>, <<"bin">>, NameStr(tool.name)>>))

\* A default case that falls through to the success return.
InstallUnknownFallsThrough(tool, home, ext) == Result(TRUE, <<>>, <<>>, FALSE)

\* default: unknown source kind.
InstallUnknown(tool, home, ext) == Result(FALSE, <<>>, <<>>, FALSE)

installTool(tool, home, ext) ==
    CASE tool.source = "github" -> InstallGitHub(tool, home, ext)
      [] tool.source = "url" -> InstallURL(tool, home, ext)
      [] tool.source = "brew" -> InstallBrew(tool, home, ext)
      [] tool.source = "go" -> InstallGo(tool, home, ext)
      [] tool.source = "rustup" -> InstallRustup(tool, home, ext)
      [] OTHER -> InstallUnknown(tool, home, ext)

\* ------------------------------------------------------------------ uninstallTool

\* filepath.Join(os.Getenv("HOME"), "go/bin/")
GoBinPrefix(home) == Join(<<home, <<"go", Slash, "bin", Slash>>>>)

\* filepath.Join(os.Getenv("HOME"), ".cargo/bin/")
CargoBinPrefix(home) == Join(<<home, <<".cargo", Slash, "bin", Slash>>>>)

\* The removal strategy the recorded path selects.
StrategyOf(installPath, home) ==
    IF HasPrefix(installPath, BrewBin) THEN "brew"
    ELSE IF HasPrefix(installPath, GoBinPrefix(home)) THEN "go"
    ELSE IF HasPrefix(installPath, CargoBinPrefix(home)) THEN "rustup"
    ELSE "direct"

\* What is at the recorded path: a file (or empty directory), a directory with
\* entries, nothing, or something the process may not remove.
Targets == {"file", "dir", "missing", "denied"}

\* os.Remove succeeds on a file or an empty directory.
RemoveOK(target) == target = "file"

\* os.RemoveAll returns nil when the path does not exist.
RemoveAllOK(target) == target \in {"file", "dir", "missing"}

\* The outcomes of what uninstallTool calls, for the strategy the path selects:
\* exit status of `brew uninstall`, of `rustup show active-toolchain` (and whether
\* it names the system toolchain), of `cargo uninstall`; what is at the path; the
\* package database (query fails, no line names the tool, forgetting the matching
\* line fails or succeeds); the glob (no match, sudo rm fails or succeeds).
UExtOf(installPath, home) ==
    LET s == StrategyOf(installPath, home)
    IN  [brew : IF s = "brew" THEN BOOLEAN ELSE {FALSE},
         show : IF s = "rustup" THEN BOOLEAN ELSE {FALSE},
         system : IF s = "rustup" THEN BOOLEAN ELSE {FALSE},
         cargo : IF s = "rustup" THEN BOOLEAN ELSE {FALSE},
         target : IF s = "brew" THEN {"missing"} ELSE Targets,
         pkg : IF s = "direct" THEN {"err", "nomatch", "forgetfail", "forgetok"}
               ELSE {"err"},
         glob : IF s = "direct" THEN {"none", "rmfail", "rmok"} ELSE {"none"}]

\* The tail of uninstallTool: pkgutil --forget, then the glob under /usr/local/bin.
UninstallFallbacks(ux) ==
    IF ux.pkg = "forgetok" THEN TRUE
    ELSE ux.glob = "rmok"

\* An uninstallTool that removes the binary whatever the active toolchain is.
uninstallToolAnyToolchain(name, toolState, home, ux) ==
    LET installPath == toolState.InstallPath
        s == StrategyOf(installPath, home)
    IN  CASE s = "brew" -> ux.brew
          [] s = "go" -> RemoveOK(ux.target)
          [] s = "rustup" -> IF ~ux.show THEN ux.cargo ELSE RemoveOK(ux.target)
          [] OTHER ->
               IF installPath # <<>> /\ (RemoveOK(ux.target) \/ RemoveAllOK(ux.target))
               THEN TRUE
               ELSE UninstallFallbacks(ux)

uninstallTool(name, toolState, home, ux) ==
    LET installPath == toolState.InstallPath
        s == StrategyOf(installPath, home)
    IN  CASE s = "brew" -> ux.brew
          [] s = "go" -> RemoveOK(ux.target)
          [] s = "rustup" ->
               IF ~ux.show THEN ux.cargo
               ELSE IF ux.system THEN FALSE
               ELSE RemoveOK(ux.target)
          [] OTHER ->
               IF installPath # <<>> /\ (RemoveOK(ux.target) \/ RemoveAllOK(ux.target))
               THEN TRUE
               ELSE UninstallFallbacks(ux)

\* One call made by uninstallTool: the strategy of the chain it belongs to (1 the
\* package manager, 2 the language installer's binary, 3 the toolchain, 4 the
\* recorded path, 5 the package database, 6 the glob), the call, whether it
\* succeeded, and what it found: what the toolchain query printed, or what lay at
\* the path handed to a direct removal.
Step(strategy, call, ok, out) ==
    [strategy |-> strategy, call |-> call, ok |-> ok, out |-> out]

\* The calls of the direct removal: os.Remove, then os.RemoveAll if that failed.
DirectSteps(installPath, ux) ==
    IF installPath = <<>> THEN <<>>
    ELSE IF RemoveOK(ux.target) THEN <<Step(4, "os.Remove", TRUE, ux.target)>>
    ELSE <<Step(4, "os.Remove", FALSE, ux.target),
           Step(4, "os.RemoveAll", RemoveAllOK(ux.target), ux.target)>>

\* The calls of the glob removal: the glob, then sudo rm -f on what it matched.
GlobSteps(ux) ==
    IF ux.glob = "none" THEN <<Step(6, "filepath.Glob", FALSE, "")>>
    ELSE <<Step(6, "filepath.Glob", TRUE, ""), Step(6, "sudo rm", ux.glob = "rmok", "")>>

\* The calls of the tail of uninstallTool.
FallbackSteps(ux) ==
    CASE ux.pkg = "err" -> <<Step(5, "pkgutil --pkgs", FALSE, "")>> \o GlobSteps(ux)
      [] ux.pkg = "nomatch" -> <<Step(5, "pkgutil --pkgs", TRUE, "")>> \o GlobSteps(ux)
      [] ux.pkg = "forgetfail" ->
           <<Step(5, "pkgutil --pkgs", TRUE, ""), Step(5, "pkgutil --forget", FALSE, "")>>
           \o GlobSteps(ux)
      [] OTHER ->
           <<Step(5, "pkgutil --pkgs", TRUE, ""), Step(5, "pkgutil --forget", TRUE, "")>>

\* A toolchain branch that falls back to cargo uninstall when the removal fails.
RustupStepsCargoFallback(ux) ==
    IF ~ux.show \/ (~ux.system /\ ~RemoveOK(ux.target))
    THEN (IF ux.show
          THEN <<Step(3, "rustup show", TRUE, "stable"), Step(3, "os.Remove", FALSE, "")>>
          ELSE <<Step(3, "rustup show", FALSE, "")>>)
         \o <<Step(3, "cargo uninstall", ux.cargo, "")>>
    ELSE IF ux.system THEN <<Step(3, "rustup show", TRUE, "system")>>
    ELSE <<Step(3, "rustup show", TRUE, "stable"), Step(3, "os.Remove", TRUE, "")>>

\* The calls the toolchain branch makes.
RustupSteps(ux) ==
    IF ~ux.show
    THEN <<Step(3, "rustup show", FALSE, ""), Step(3, "cargo uninstall", ux.cargo, "")>>
    ELSE IF ux.system THEN <<Step(3, "rustup show", TRUE, "system")>>
    ELSE <<Step(3, "rustup show", TRUE, "stable"),
           Step(3, "os.Remove", RemoveOK(ux.target), "")>>

\* A chain that goes on to the recorded path when the strategy the prefix selected
\* has failed.
UninstallStepsChained(name, toolState, home, ux) ==
    LET installPath == toolState.InstallPath
        s == StrategyOf(installPath, home)
        first == CASE s = "brew" -> <<Step(1, "brew uninstall", ux.brew, "")>>
                   [] s = "go" -> <<Step(2, "os.Remove", RemoveOK(ux.target), "")>>
                   [] s = "rustup" -> RustupSteps(ux)
                   [] OTHER -> <<>>
        direct == first \o DirectSteps(installPath, ux)
    IN  IF first # <<>> /\ first[Len(first)].ok THEN first
        ELSE IF direct # <<>> /\ direct[Len(direct)].ok THEN direct
        ELSE direct \o FallbackSteps(ux)

\* The external calls uninstallTool makes, in order, with their outcomes.
UninstallSteps(name, toolState, home, ux) ==
    LET installPath == toolState.InstallPath
        s == StrategyOf(installPath, home)
        direct == DirectSteps(installPath, ux)
    IN  CASE s = "brew" -> <<Step(1, "brew uninstall", ux.brew, "")>>
          [] s = "go" -> <<Step(2, "os.Remove", RemoveOK(ux.target), "")>>
          [] s = "rustup" -> RustupSteps(ux)
          [] OTHER ->
               IF direct # <<>> /\ direct[Len(direct)].ok THEN direct
               ELSE direct \o FallbackSteps(ux)

\* The record of an uninstallTool call: its arguments, its calls and its result.
Call(name, toolState, steps, ok) ==
    [called |-> TRUE, name |-> name, path |-> toolState.InstallPath, steps |-> steps,
     ok |-> ok]

NoCall == [called |-> FALSE, name |-> "", path |-> <<>>, steps |-> <<>>, ok |-> FALSE]

\* ------------------------------------------------------------------ release assets

\* Most assets in a release.
MaxAssets == 3

\* The two copies of the selection loop: downloadFromGitHub and
\* downloadToolsFromGitHub.
Variants == {"downloadFromGitHub", "downloadToolsFromGitHub"}

\* preferredPatterns, in priority order.
PreferredPatterns(variant) ==
    IF variant = "downloadFromGitHub"
    THEN <<"darwin-arm64", "darwin_aarch64", "aarch64-apple-darwin", "arm64", "macos">>
    ELSE <<"darwin_amd64", "darwin-arm64", "darwin_aarch64", "aarch64-apple-darwin",
           "macos", "macOS_amd64", "macos_amd64">>

\* The archive suffixes the loop accepts.
ArchiveSuffixes(variant) ==
    IF variant = "downloadFromGitHub" THEN {".tar.gz", ".tgz", ".zip"}
    ELSE {".tar.gz", ".tgz", ".tar.bz2", ".tar.xz", ".zip"}

\* strings.ToLower, token by token.
ToLower(s) ==
    LET lower(t) == CASE t = "macOS" -> "macos"
                      [] t = "T" -> "t"
                      [] OTHER -> t
    IN  [i \in DOMAIN s |-> lower(s[i])]

\* The patterns that are substrings of a lower-case token of an asset name.
PatternsWithin(t) ==
    CASE t = "darwin-arm64" -> {"darwin-arm64", "arm64"}
      [] t = "linux-arm64" -> {"arm64"}
      [] t = "macos" -> {"macos"}
      [] OTHER -> {}

\* strings.Contains(assetNameLower, pattern), for names whose platform is one token.
Contains(s, pattern) == \E i \in DOMAIN s : pattern \in PatternsWithin(s[i])

\* The assets of the releases: the name is a stem, a platform and a suffix, and
\* browser_download_url, which the API gives every asset, ends in the name.
Assets ==
    LET platforms == {"darwin-arm64", "macOS", "linux-arm64", "linux-amd64"}
        suffixes == {".tar.gz", ".tar.xz", ".deb"}
        url(name) == <<"https:", Slash, Slash, "github.com", Slash, "r", Slash,
                       "releases", Slash, "download", Slash, "v1", Slash>> \o name
        asset(name) == [name |-> name, url |-> url(name)]
    IN  {asset(<<"T", "-", pf, sfx>>) : pf \in platforms, sfx \in suffixes}

\* The condition of the inner loop's if.
MatchesPattern(asset, pattern, variant) ==
    LET assetNameLower == ToLower(asset.name)
    IN  /\ Contains(assetNameLower, pattern)
        /\ \E sfx \in ArchiveSuffixes(variant) : HasSuffix(assetNameLower, <<sfx>>)

\* An inner loop that keeps the last asset matching the pattern.
FirstMatchingKeepsLast(assets, pattern, variant) ==
    LET S == {i \in DOMAIN assets : MatchesPattern(assets[i], pattern, variant)}
    IN  IF S = {} THEN 0 ELSE CHOOSE i \in S : \A j \in S : j <= i

\* The inner loop: the position of the first asset, in listing order, matching the
\* pattern; 0 when none does.
FirstMatching(assets, pattern, variant) ==
    LET S == {i \in DOMAIN assets : MatchesPattern(assets[i], pattern, variant)}
    IN  IF S = {} THEN 0 ELSE CHOOSE i \in S : \A j \in S : i <= j

RECURSIVE SelectFrom(_, _, _)
\* The outer loop from the given patterns on: it stops once assetURL is not empty.
SelectFrom(patterns, assets, variant) ==
    IF patterns = <<>> THEN 0
    ELSE LET i == FirstMatching(assets, Head(patterns), variant)
         IN  IF i # 0 /\ assets[i].url # <<>> THEN i
             ELSE SelectFrom(Tail(patterns), assets, variant)

\* A selection that takes the first asset matching any pattern.
SelectAssetListingFirst(assets, variant) ==
    LET pats == PreferredPatterns(variant)
        S == {i \in DOMAIN assets :
                \E k \in DOMAIN pats : MatchesPattern(assets[i], pats[k], variant)}
    IN  IF S = {} THEN 0 ELSE CHOOSE i \in S : \A j \in S : i <= j

\* The position of the asset the release query selects; 0: no matching asset.
SelectAsset(assets, variant) == SelectFrom(PreferredPatterns(variant), assets, variant)

\* What downloadFromGitHub has not selected yet.
NotPicked == [done |-> FALSE, index |-> 0]

\* ------------------------------------------------------------------ archives

\* Most regular files in an archive.
MaxFiles == 2

\* The directory installTool extracts into.
TmpDir == <<Slash, "tmp", Slash>>

\* The file names of archive members, in the lexical order filepath.WalkDir visits
\* them.
FileNames == << <<"t">>, <<"t", "-", "cli">>, <<"u">> >>

\* A regular archive member: its name, whether its header carries an execute
\* permission bit, and whether the file command calls its content executable.
FileEntry(name, perm, magic) == [name |-> name, type |-> "reg", perm |-> perm, magic |-> magic]

DirEntry(name) == [name |-> name, type |-> "dir", perm |-> TRUE, magic |-> FALSE]

\* The archives: one top-level regular file, one top-level directory d holding up to
\* MaxFiles regular files, or two to MaxFiles top-level executable files.
Archives ==
    LET names == {FileNames[i] : i \in DOMAIN FileNames}
        file(dir, n, b) == FileEntry(dir \o n, b[1], b[2])
        flags == BOOLEAN \X BOOLEAN
        inDir == {s \in SeqsUpTo(names \X flags, MaxFiles) :
                    /\ s # <<>>
                    /\ \A i \in DOMAIN s : \A j \in DOMAIN s : i < j => s[i][1] # s[j][1]}
        flat == {s \in inDir : Len(s) > 1 /\ \A i \in DOMAIN s : s[i][2] = <<TRUE, TRUE>>}
    IN  {<<file(<<>>, n, b)>> : n \in names, b \in flags}
        \cup {<<DirEntry(<<"d", Slash>>)>>
                \o [i \in DOMAIN s |-> file(<<"d", Slash>>, s[i][1], s[i][2])] : s \in inDir}
        \cup {[i \in DOMAIN s |-> file(<<>>, s[i][1], s[i][2])] : s \in flat}

\* The paths of the downloaded archive.
ArchivePaths ==
    {TmpDir \o stem \o <<sfx>> :
        stem \in {<<"t", "-", "1.0">>, <<"u">>},
        sfx \in {".zip", ".7z", ".tar", ".tar.gz", ".deb"}}

\* What the copies can do: the base names copyBinary can write in /usr/local/bin
\* and in $HOME/bin, and whether MkdirAll($HOME/bin) succeeds.
CopyEnvs ==
    LET names == {FileNames[i] : i \in DOMAIN FileNames}
    IN  [sys : SUBSET names, usr : SUBSET names, mkdir : BOOLEAN]

\* extractToolNameFromPath
extractToolNameFromPath(path) ==
    LET base == Base(path)
        exts == {".tar.gz", ".tgz", ".tar.bz2", ".tar.xz", ".zip", ".7z"}
        filename == IF base[Len(base)] \in exts
                    THEN SubSeq(base, 1, Len(base) - 1) ELSE base
        delims == {"-", "_"}
        starts == {i \in DOMAIN filename : filename[i] \notin delims}
    IN  IF starts = {} THEN filename
        ELSE LET a == CHOOSE i \in starts : \A j \in starts : i <= j
                 ends == {j \in a .. Len(filename) :
                            \A k \in a .. j : filename[k] \notin delims}
                 b == CHOOSE j \in ends : \A k \in ends : k <= j
             IN  SubSeq(filename, a, b)

\* The extractor ExtractArchive routes to, by the suffix of src.
ArchiveFormat(src) ==
    LET sfx == src[Len(src)]
    IN  IF sfx = ".zip" THEN "zip"
        ELSE IF sfx = ".7z" THEN "7z"
        ELSE IF sfx \in {".tar", ".tar.gz", ".tgz", ".tar.bz2", ".tar.xz"} THEN "tar"
        ELSE "unsupported"

\* The regular files an extractor writes under dest: extractZip opens the target
\* with the member's mode, extractTarArchive and extract7z with os.Create, which
\* sets no execute bit.
ExtractedFiles(src, dest, entries) ==
    {[path |-> Join(<<dest, e.name>>),
      exec |-> IF ArchiveFormat(src) = "zip" THEN e.perm ELSE FALSE,
      magic |-> e.magic] :
        e \in {entries[i] : i \in {j \in DOMAIN entries : entries[j].type = "reg"}}}

\* strings.Split(name, "/")[0]
FirstSegment(name) ==
    LET slashes == {i \in DOMAIN name : name[i] = Slash}
    IN  IF slashes = {} THEN name
        ELSE SubSeq(name, 1, (CHOOSE i \in slashes : \A j \in slashes : i <= j) - 1)

\* A topLevel that every member overwrites.
TopLevelLastSeen(entries) ==
    IF entries = <<>> THEN <<>> ELSE FirstSegment(entries[Len(entries)].name)

RECURSIVE TopLevel(_)
\* topLevel after the walk: set while it is still "", so by the first member whose
\* first path element is not empty.
TopLevel(entries) ==
    IF entries = <<>> THEN <<>>
    ELSE IF FirstSegment(Head(entries).name) # <<>> THEN FirstSegment(Head(entries).name)
    ELSE TopLevel(Tail(entries))

\* ExtractArchive's returned path: filepath.Join(dest, topLevel).
ExtractedPath(dest, entries) == Join(<<dest, TopLevel(entries)>>)

\* info.IsDir() of the extracted path.
IsDir(dest, entries) ==
    \E i \in DOMAIN entries :
        LET target == Join(<<dest, entries[i].name>>)
        IN  IF target = ExtractedPath(dest, entries) THEN entries[i].type = "dir"
            ELSE HasPrefix(target, ExtractedPath(dest, entries) \o <<Slash>>)

\* findExecutables over a directory whose regular files are its direct children:
\* the files whose name starts with toolName and that carry an execute bit or that
\* the file command calls executable, in WalkDir's order.
findExecutables(root, toolName, files) ==
    LET found(n) == \E f \in files :
                       /\ f.path = root \o <<Slash>> \o n
                       /\ HasPrefix(n, toolName)
                       /\ (f.exec \/ f.magic)
        hits == SelectSeq(FileNames, found)
    IN  [i \in DOMAIN hits |-> root \o <<Slash>> \o hits[i]]

\* copyBinary(src, dstDir) returns nil.
copyBinary(src, dstDir, env) ==
    IF dstDir = UsrLocalBin THEN Base(src) \in env.sys ELSE Base(src) \in env.usr

\* What ExtractAndInstall returns and the copies it has made.
Outcome(err, path, written, tried) ==
    [err |-> err, path |-> path, written |-> written, tried |-> tried]

\* One call of copyBinary: the binary, the directory, whether it returned nil.
Attempt(src, dir, env) == [src |-> src, dir |-> dir, ok |-> copyBinary(src, dir, env)]

RECURSIVE CopyAllRetrySystem(_, _, _, _, _, _, _)
\* A copy loop that starts every binary at /usr/local/bin again.
CopyAllRetrySystem(binaries, first, destination, home, env, written, tried) ==
    IF binaries = <<>>
    THEN Outcome("", Join(<<destination, Base(first)>>), written, tried)
    ELSE LET binaryPath == Head(binaries)
             homeBin == Join(<<home, <<"bin">>>>)
             at(dir) == written \o <<[src |-> binaryPath,
                                       dst |-> Join(<<dir, Base(binaryPath)>>)]>>
             t1 == tried \o <<Attempt(binaryPath, UsrLocalBin, env)>>
             t2 == t1 \o <<Attempt(binaryPath, homeBin, env)>>
         IN  IF copyBinary(binaryPath, UsrLocalBin, env)
             THEN CopyAllRetrySystem(Tail(binaries), first, destination, home, env,
                                     at(UsrLocalBin), t1)
             ELSE IF ~env.mkdir
             THEN Outcome("cannot create fallback bin directory", <<>>, written, t1)
             ELSE IF ~copyBinary(binaryPath, homeBin, env)
             THEN Outcome("failed to copy binary to fallback location", <<>>, written, t2)
             ELSE CopyAllRetrySystem(Tail(binaries), first, homeBin, home, env,
                                     at(homeBin), t2)

RECURSIVE CopyAll(_, _, _, _, _, _, _)
\* The copy loop from the given binaries on, with the copies made and the calls of
\* copyBinary so far.
CopyAll(binaries, first, destination, home, env, written, tried) ==
    IF binaries = <<>>
    THEN Outcome("", Join(<<destination, Base(first)>>), written, tried)
    ELSE LET binaryPath == Head(binaries)
             homeBin == Join(<<home, <<"bin">>>>)
             at(dir) == written \o <<[src |-> binaryPath,
                                       dst |-> Join(<<dir, Base(binaryPath)>>)]>>
             t1 == tried \o <<Attempt(binaryPath, destination, env)>>
             t2 == t1 \o <<Attempt(binaryPath, homeBin, env)>>
         IN  IF copyBinary(binaryPath, destination, env)
             THEN CopyAll(Tail(binaries), first, destination, home, env,
                          at(destination), t1)
             ELSE IF ~env.mkdir
             THEN Outcome("cannot create fallback bin directory", <<>>, written, t1)
             ELSE IF ~copyBinary(binaryPath, homeBin, env)
             THEN Outcome("failed to copy binary to fallback location", <<>>, written, t2)
             ELSE CopyAll(Tail(binaries), first, homeBin, home, env, at(homeBin), t2)

\* ExtractAndInstall(src, dest) on an archive with the given members.
ExtractAndInstall(src, dest, entries, home, env) ==
    LET extractedPath == ExtractedPath(dest, entries)
        toolName == extractToolNameFromPath(src)
        binaries == IF IsDir(dest, entries)
                    THEN findExecutables(extractedPath, toolName,
                                         ExtractedFiles(src, dest, entries))
                    ELSE <<extractedPath>>
    IN  IF ArchiveFormat(src) = "unsupported"
        THEN Outcome("unsupported archive format", <<>>, <<>>, <<>>)
        ELSE IF binaries = <<>> THEN Outcome("no binary found in folder", <<>>, <<>>, <<>>)
        ELSE CopyAll(binaries, binaries[1], UsrLocalBin, home, env, <<>>, <<>>)

\* No call of ExtractAndInstall has returned.
NotExtracted ==
    [done |-> FALSE, out |-> Outcome("", <<>>, <<>>, <<>>), root |-> <<>>, files |-> {}]

\* ------------------------------------------------------------------ state file

\* Most settings in a configuration.
MaxSettings == 1

\* Most fonts in a configuration.
MaxFonts == 2

Setting(d, k, v, t) == [domain |-> d, key |-> k, value |-> v, type |-> t]

Font(n, s, r, t) == [name |-> n, source |-> s, repo |-> r, tag |-> t]

SettingState(d, k, v) == [Domain |-> d, Key |-> k, Value |-> v]

FontState(n, u, fs) == [Name |-> n, URL |-> u, Files |-> fs]

\* fmt.Sprintf("%s:%s", s.Domain, s.Key)
SettingKey(s) == <<s.domain, ":", s.key>>

\* fmt.Sprintf("https://github.com/%s/releases/download/%s/%s.zip", ...)
FontURL(font) ==
    <<"https://github.com/", font.repo, "/releases/download/", font.tag, Slash,
      font.name, ".zip">>

\* filepath.Join(os.Getenv("HOME"), "Library", "Fonts", info.Name()) for the
\* Regular face of the font.
FontFile(fontName, home) ==
    Join(<<home, <<"Library">>, <<"Fonts">>, <<fontName, "-Regular.ttf">>>>)

SettingsCfg ==
    {Setting("com.apple.dock", "autohide", v, "bool") : v \in {"true", "false"}}

FontsCfg ==
    {Font("f", "github", "r", "v1"), Font("f", "github", "r", "v2"),
     Font("g", "gitlab", "r", "v1")}

FontNames == {"f", "g"}

\* A Go map field of State: nil, or a map with contents m.
NilMap == [nil |-> TRUE, m |-> <<>>]

MakeMap(m) == [nil |-> FALSE, m |-> m]

\* One key of the state file's JSON object: absent, null, or an object.
Absent == [kind |-> "absent", m |-> <<>>]

Null == [kind |-> "null", m |-> <<>>]

Object(m) == [kind |-> "object", m |-> m]

\* The state file: missing, unreadable, not JSON, or a JSON object with its keys.
StateFile(kind, t, s, f) == [kind |-> kind, tools |-> t, settings |-> s, fonts |-> f]

SavedTools == [n \in {"a"} |-> ToolState("1", BrewBin \o NameStr(n), TRUE)]

SavedSettings ==
    [k \in {SettingKey(Setting("com.apple.dock", "autohide", "true", "bool"))} |->
        SettingState("com.apple.dock", "autohide", "true")]

SavedFonts ==
    [n \in {"f"} |->
        FontState(n, FontURL(Font(n, "github", "r", "v1")),
                  <<FontFile(n, UsrHomeDir)>>)]

Entries(m) == {Absent, Null, Object(m)}

StateFiles ==
    {StateFile(k, Absent, Absent, Absent) : k \in {"missing", "unreadable", "corrupt"}}
    \cup {StateFile("json", t, s, f) :
            t \in Entries(SavedTools), s \in Entries(SavedSettings),
            f \in Entries(SavedFonts)}

\* json.Unmarshal of one key into a nil map field: an object allocates the map, null
\* or no key leaves the field nil.
UnmarshalField(entry) == IF entry.kind = "object" THEN MakeMap(entry.m) ELSE NilMap

\* json.Unmarshal(file, &st) on a zero State; bytes that are not JSON leave st as
\* it is and the error is dropped.
Unmarshal(file) ==
    IF file.kind = "json"
    THEN [Tools |-> UnmarshalField(file.tools),
          Settings |-> UnmarshalField(file.settings),
          Fonts |-> UnmarshalField(file.fonts)]
    ELSE [Tools |-> NilMap, Settings |-> NilMap, Fonts |-> NilMap]

LoadState(file) ==
    IF file.kind \in {"missing", "unreadable"}
    THEN [Tools |-> MakeMap(<<>>), Settings |-> MakeMap(<<>>), Fonts |-> NilMap]
    ELSE LET st == Unmarshal(file)
         IN  [Tools |-> IF st.Tools.nil THEN MakeMap(<<>>) ELSE st.Tools,
              Settings |-> IF st.Settings.nil THEN MakeMap(<<>>) ELSE st.Settings,
              Fonts |-> st.Fonts]

\* json.MarshalIndent of one map field: a nil map is written as null.
MarshalField(map) == IF map.nil THEN Null ELSE Object(map.m)

\* The bytes SaveState writes for st.
Marshal(st) ==
    StateFile("json", MarshalField(st.Tools), MarshalField(st.Settings),
              MarshalField(st.Fonts))

\* The keys of the state file's JSON object: tools, settings, fonts.
StateKeys == 3

\* Nothing has been read from the state file.
NotRead == [read |-> FALSE, content |-> StateFile("missing", Absent, Absent, Absent), len |-> 0]

\* uninstallFont, given the positions of fontState.Files that os.Remove removes.
uninstallFont(name, fontState, removable) ==
    \E k \in DOMAIN fontState.Files : k \in removable

\* ------------------------------------------------------------------ state

VARIABLES
    tools,      \* the desired tool list of the run
    home,       \* os.Getenv("HOME")
    stTools,    \* st.Tools: a function from the recorded names to their ToolState
    pre,        \* st.Tools when the pass began
    existing,   \* SyncTools' existing map: the names seen in the desired list
    pc,         \* where SyncTools is: "loop", "wait", "remove", "done"
    idx,        \* the position of the scheduling loop in tools
    task,       \* one entry per position of tools: its goroutine
    mu,         \* the task holding the mutex, 0 when it is free
    pending,    \* the entries the removal loop has still to visit
    unres,      \* per name: "ok" or "fail" as uninstallTool returned, else "none"
    pass,       \* 1 for the first pass, 2 for the pass run right after it
    firstOK,    \* whether every install and uninstall of the first pass succeeded
    ulog,       \* the last uninstallTool call of the removal loop
    crashed,    \* "no"; "panic" after a goroutine panicked; "fatal" after the
                \* runtime detected a concurrent map read and map write
    cmd,        \* the command that runs: "tools", "settings" or "fonts"
    cfg,        \* the configuration's settings and fonts
    file,       \* the state file
    stSettings, \* st.Settings: a function from "domain:key" to SettingState
    stFonts,    \* st.Fonts: a function from font names to FontState
    nilMaps,    \* the fields of st, of "Tools", "Settings", "Fonts", that are nil
    cpc,        \* where the command is: "load", "sync", "remove", "save", "end"
    cidx,       \* the position of SyncSettings' or SyncFonts' loop
    configuredFonts,  \* SyncFonts' configuredFonts
    fpending,   \* the entries SyncFonts' removal loop has still to visit
    release,    \* the release a download queries: its assets and the loop that reads it
    picked,     \* the asset the selection loop chose, once it has run
    archive,    \* the archive ExtractAndInstall is given: its path, members, copy outcomes
    installed,  \* what ExtractAndInstall returned and copied, once it has run
    disk,       \* the state file on disk: the contents being written and how many of their keys are there
    seen,       \* what another process last read from the state file
    jobs,       \* two install tasks of one pass: name, URL and the archive behind the URL
    jpc,        \* the position of each of the two tasks
    wrote,      \* the paths each of the two tasks has written so far
    route       \* one tool installed and later uninstalled: what each call did

cmdVars == <<cmd, cfg, file, stSettings, stFonts, nilMaps, cpc, cidx, configuredFonts,
             fpending>>

assetVars == <<release, picked>>

archiveVars == <<archive, installed>>

saveVars == <<disk, seen>>

jobVars == <<jobs, jpc, wrote>>

libVars == <<assetVars, archiveVars, saveVars, jobVars, route>>

vars == <<tools, home, stTools, pre, existing, pc, idx, task, mu, pending, unres,
          pass, firstOK, ulog, crashed, cmdVars, libVars>>

\* No release is queried.
NoRelease ==
    /\ release = [variant |-> "downloadFromGitHub", assets |-> <<>>]
    /\ picked = NotPicked

\* No archive is extracted.
NoArchive ==
    /\ archive = [src |-> <<>>, entries |-> <<>>, env |-> [sys |-> {}, usr |-> {}, mkdir |-> TRUE]]
    /\ installed = NotExtracted

\* The state file on disk is the whole file the command loads, and nobody has read it.
NoSave ==
    /\ disk = [content |-> file, len |-> StateKeys]
    /\ seen = NotRead

\* No pair of install tasks is followed.
NoJobs ==
    /\ jobs = <<>>
    /\ jpc = <<>>
    /\ wrote = <<>>

NoResult == Result(FALSE, <<>>, <<>>, FALSE)

\* A tool whose install has not been run: the tool, whether installTool and
\* uninstallTool have run, what installTool returned and the calls uninstallTool
\* made.
NotRouted ==
    [tool |-> Tool("", "", "apt", <<>>), installed |-> FALSE, removed |-> FALSE,
     res |-> NoResult, steps |-> <<>>]

\* No tool is followed from its install to its uninstall.
NoRoute == route = NotRouted

\* The values of libVars in the runs that do not exercise them.
LibIdle == NoRelease /\ NoArchive /\ NoSave /\ NoJobs /\ NoRoute

\* A goroutine that has not been started.
Idle == [st |-> "idle", res |-> NoResult]

\* The records a state file may hold for name n before the run.
PriorRecords(n) ==
    {ToolState("1", BrewBin \o NameStr(n), TRUE),
     ToolState("2", Join(<<UsrLocalBin, NameStr(n)>>), FALSE)}

PriorStates ==
    UNION {{f \in [D -> UNION {PriorRecords(n) : n \in D}] :
              \A n \in D : f[n] \in PriorRecords(n)} : D \in SUBSET Names}

\* The state SyncTools starts from in the tools command, once LoadState has
\* returned, given the desired lists and HOME values.
Start(lists, homes) ==
    /\ tools \in lists
    /\ home \in homes
    /\ stTools \in PriorStates
    /\ pre = stTools
    /\ existing = {}
    /\ pc = "loop"
    /\ idx = 1
    /\ task = [i \in 1 .. Len(tools) |-> Idle]
    /\ mu = 0
    /\ pending = {}
    /\ unres = [n \in Names |-> "none"]
    /\ pass = 1
    /\ firstOK = FALSE
    /\ ulog = NoCall
    /\ crashed = "no"
    /\ cmd = "tools"
    /\ cfg = [Settings |-> <<>>, Fonts |-> <<>>]
    /\ file = StateFile("json", Object(stTools), Absent, Absent)
    /\ stSettings = LoadState(file).Settings.m
    /\ stFonts = LoadState(file).Fonts.m
    /\ nilMaps = {k \in {"Tools", "Settings", "Fonts"} : LoadState(file)[k].nil}
    /\ cpc = "sync"
    /\ cidx = 1
    /\ configuredFonts = {}
    /\ fpending = {}
    /\ LibIdle

Init == Start(ToolLists, {UsrHomeDir})

InitKinds == Start(KindToolLists, Homes)

\* ------------------------------------------------------------------ SyncTools

\* st.Tools[name] = rec
Put(m, name, rec) ==
    [n \in DOMAIN m \cup {name} |-> IF n = name THEN rec ELSE m[n]]

\* delete(st.Tools, name)
Delete(m, name) == [n \in DOMAIN m \ {name} |-> m[n]]

\* A record that stores a resolved version in place of a sentinel.
NewRecordResolved(tool, installPath) ==
    ToolState(IF tool.version \in {"", "latest"} THEN "9.9" ELSE tool.version,
              installPath, TRUE)

\* The record a task writes after a successful installTool.
NewRecord(tool, installPath) == ToolState(tool.version, installPath, TRUE)

\* curToolState, ok := st.Tools[tool.Name]; !ok || curToolState.Version != tool.Version
NeedsInstall(m, tool) ==
    \/ tool.name \notin DOMAIN m
    \/ m[tool.name].Version # tool.version

\* The tasks inside mapassign: holding the mutex with the write not yet complete.
Writers == {j \in DOMAIN task : task[j].st = "cs"}

\* What an unsynchronised read of st.Tools may observe: the map as it is, or, while
\* a task is writing, the map with that write applied.
Views ==
    {stTools} \cup {Put(stTools, tools[j].name, NewRecord(tools[j], task[j].res.path)) :
                      j \in Writers}

\* One iteration of the scheduling loop: for _, tool := range tools.
Schedule ==
    /\ crashed = "no"
    /\ UNCHANGED <<cmdVars, libVars, ulog>>
    /\ pc = "loop"
    /\ idx <= Len(tools)
    /\ \E view \in Views :
         task' = [task EXCEPT ![idx].st =
                    IF NeedsInstall(view, tools[idx]) THEN "run" ELSE "skip"]
    /\ existing' = existing \cup {tools[idx].name}
    /\ idx' = idx + 1
    /\ UNCHANGED <<tools, home, stTools, pre, pc, mu, pending, unres, pass, firstOK,
                   crashed>>

\* The read of st.Tools in the loop overlaps a task's write and the runtime stops
\* the process: "fatal error: concurrent map read and map write".
ScheduleFatal ==
    /\ crashed = "no"
    /\ UNCHANGED <<cmdVars, libVars, ulog>>
    /\ pc = "loop"
    /\ idx <= Len(tools)
    /\ Writers # {}
    /\ crashed' = "fatal"
    /\ UNCHANGED <<tools, home, stTools, pre, existing, pc, idx, task, mu, pending,
                   unres, pass, firstOK>>

\* The loop ends and SyncTools reaches wg.Wait().
LoopEnd ==
    /\ crashed = "no"
    /\ UNCHANGED <<cmdVars, libVars, ulog>>
    /\ pc = "loop"
    /\ idx > Len(tools)
    /\ pc' = "wait"
    /\ UNCHANGED <<tools, home, stTools, pre, existing, idx, task, mu, pending, unres,
                   pass, firstOK, crashed>>

\* Task i runs installTool(tool) to its end.
Install(i) ==
    /\ crashed = "no"
    /\ UNCHANGED <<cmdVars, libVars, ulog>>
    /\ task[i].st = "run"
    /\ \E ext \in ExtOf(tools[i]) :
         LET r == installTool(tools[i], home, ext)
         IN  /\ task' = [task EXCEPT ![i] =
                           [st |-> IF r.panicked THEN "panic"
                                   ELSE IF r.ok THEN "got" ELSE "failed",
                            res |-> r]]
             /\ crashed' = IF r.panicked THEN "panic" ELSE crashed
    /\ UNCHANGED <<tools, home, stTools, pre, existing, pc, idx, mu, pending, unres,
                   pass, firstOK>>

\* A Lock() that does not wait for the holder.
CanLockUnguarded(i) == task[i].st = "got"

\* mu.Lock() may return for task i.
CanLock(i) == task[i].st = "got" /\ mu = 0

\* mu.Lock(), and the map assignment begins.
Lock(i) ==
    /\ crashed = "no"
    /\ UNCHANGED <<cmdVars, libVars, ulog>>
    /\ CanLock(i)
    /\ mu' = i
    /\ task' = [task EXCEPT ![i].st = "cs"]
    /\ UNCHANGED <<tools, home, stTools, pre, existing, pc, idx, pending, unres, pass,
                   firstOK, crashed>>

\* st.Tools[tool.Name] = ToolState{...} completes.
Write(i) ==
    /\ crashed = "no"
    /\ UNCHANGED <<cmdVars, libVars, ulog>>
    /\ task[i].st = "cs"
    /\ stTools' = Put(stTools, tools[i].name, NewRecord(tools[i], task[i].res.path))
    /\ task' = [task EXCEPT ![i].st = "wr"]
    /\ UNCHANGED <<tools, home, pre, existing, pc, idx, mu, pending, unres, pass,
                   firstOK, crashed>>

\* mu.Unlock(), and the deferred wg.Done().
Unlock(i) ==
    /\ crashed = "no"
    /\ UNCHANGED <<cmdVars, libVars, ulog>>
    /\ task[i].st = "wr"
    /\ mu' = 0
    /\ task' = [task EXCEPT ![i].st = "done"]
    /\ UNCHANGED <<tools, home, stTools, pre, existing, pc, idx, pending, unres, pass,
                   firstOK, crashed>>

\* A task whose goroutine has returned, or that was never started.
Finished(i) == task[i].st \in {"skip", "done", "failed"}

\* A Wait() that returns at once.
WaitDoneAtOnce == TRUE

\* wg.Wait() may return.
WaitDone == \A i \in DOMAIN task : Finished(i)

\* wg.Wait() returns and the removal loop begins to range over st.Tools.
Wait ==
    /\ crashed = "no"
    /\ UNCHANGED <<cmdVars, libVars, ulog>>
    /\ pc = "wait"
    /\ WaitDone
    /\ pc' = "remove"
    /\ pending' = DOMAIN stTools
    /\ UNCHANGED <<tools, home, stTools, pre, existing, idx, task, mu, unres, pass,
                   firstOK, crashed>>

\* A removal loop that deletes whatever uninstallTool returned.
AfterUninstallAlways(m, name, ok) == Delete(m, name)

\* The map after uninstallTool returned ok for name: deleted on success only.
AfterUninstall(m, name, ok) == IF ok THEN Delete(m, name) ELSE m

\* A test that counts a name as configured only if its install did not fail.
ExistingUnlessFailed(n) ==
    \E i \in DOMAIN task : tools[i].name = n /\ task[i].st # "failed"

\* existing[name] in the removal loop.
Existing(n) == n \in existing

\* One iteration of the removal loop, on an entry in the desired list.
Keep(n) ==
    /\ crashed = "no"
    /\ UNCHANGED <<cmdVars, libVars, ulog>>
    /\ pc = "remove"
    /\ n \in pending
    /\ Existing(n)
    /\ pending' = pending \ {n}
    /\ UNCHANGED <<tools, home, stTools, pre, existing, pc, idx, task, mu, unres, pass,
                   firstOK, crashed>>

\* One iteration of the removal loop, on an entry absent from the desired list.
Remove(n) ==
    /\ crashed = "no"
    /\ UNCHANGED <<cmdVars, libVars>>
    /\ pc = "remove"
    /\ n \in pending
    /\ ~Existing(n)
    /\ \E ux \in UExtOf(stTools[n].InstallPath, home) :
         LET ok == uninstallTool(n, stTools[n], home, ux)
         IN  /\ stTools' = AfterUninstall(stTools, n, ok)
             /\ unres' = [unres EXCEPT ![n] = IF ok THEN "ok" ELSE "fail"]
             /\ ulog' = Call(n, stTools[n], UninstallSteps(n, stTools[n], home, ux), ok)
    /\ pending' = pending \ {n}
    /\ UNCHANGED <<tools, home, pre, existing, pc, idx, task, mu, pass, firstOK,
                   crashed>>

\* The removal loop ends and SyncTools returns.
Return ==
    /\ crashed = "no"
    /\ UNCHANGED <<cmdVars, libVars>>
    /\ ulog' = NoCall
    /\ pc = "remove"
    /\ pending = {}
    /\ pc' = "done"
    /\ UNCHANGED <<tools, home, stTools, pre, existing, idx, task, mu, pending, unres,
                   pass, firstOK, crashed>>

\* Every install and uninstall the pass attempted reported success.
PassSucceeded ==
    /\ \A i \in DOMAIN task : task[i].st \in {"skip", "done"}
    /\ \A n \in Names : unres[n] # "fail"

\* SyncTools is called again, right away, with the same list on the resulting state.
SecondPass ==
    /\ crashed = "no"
    /\ UNCHANGED <<cmdVars, libVars, ulog>>
    /\ pc = "done"
    /\ pass = 1
    /\ pass' = 2
    /\ firstOK' = PassSucceeded
    /\ pre' = stTools
    /\ existing' = {}
    /\ pc' = "loop"
    /\ idx' = 1
    /\ task' = [i \in DOMAIN task |-> Idle]
    /\ unres' = [n \in Names |-> "none"]
    /\ UNCHANGED <<tools, home, stTools, mu, pending, crashed>>

Next ==
    \/ Schedule
    \/ ScheduleFatal
    \/ LoopEnd
    \/ \E i \in DOMAIN task : Install(i)
    \/ \E i \in DOMAIN task : Lock(i)
    \/ \E i \in DOMAIN task : Write(i)
    \/ \E i \in DOMAIN task : Unlock(i)
    \/ Wait
    \/ \E n \in Names : Keep(n)
    \/ \E n \in Names : Remove(n)
    \/ Return
    \/ SecondPass

\* Concurrent runs over short lists of tools that share names.
Spec == Init /\ [][Next]_vars

\* Runs over every source kind and HOME value.
SpecKinds == InitKinds /\ [][Next]_vars

\* The runs of Spec in which the scheduler lets every goroutine that can take a step
\* take one, and every external command that was started returns.
SpecFair == Init /\ [][Next]_vars /\ WF_vars(Next)

\* ------------------------------------------------------------------ commands

toolVars == <<tools, home, stTools, pre, existing, pc, idx, task, mu, pending, unres,
             pass, firstOK, ulog>>

\* The settings command or the fonts command begins, over any state file.
InitCommands ==
    /\ tools = <<>>
    /\ home = UsrHomeDir
    /\ stTools = <<>>
    /\ pre = <<>>
    /\ existing = {}
    /\ pc = "loop"
    /\ idx = 1
    /\ task = <<>>
    /\ mu = 0
    /\ pending = {}
    /\ unres = [n \in Names |-> "none"]
    /\ pass = 1
    /\ firstOK = FALSE
    /\ ulog = NoCall
    /\ crashed = "no"
    /\ cmd \in {"settings", "fonts"}
    /\ cfg \in [Settings : SeqsUpTo(SettingsCfg, MaxSettings),
                Fonts : SeqsUpTo(FontsCfg, MaxFonts)]
    /\ file \in StateFiles
    /\ stSettings = <<>>
    /\ stFonts = <<>>
    /\ nilMaps = {"Tools", "Settings", "Fonts"}
    /\ cpc = "load"
    /\ cidx = 1
    /\ configuredFonts = {}
    /\ fpending = {}
    /\ LibIdle

\* st := config.LoadState(statePath)
Load ==
    /\ crashed = "no"
    /\ UNCHANGED libVars
    /\ cpc = "load"
    /\ LET st == LoadState(file)
       IN  /\ stTools' = st.Tools.m
           /\ stSettings' = st.Settings.m
           /\ stFonts' = st.Fonts.m
           /\ nilMaps' = {k \in {"Tools", "Settings", "Fonts"} : st[k].nil}
    /\ cpc' = "sync"
    /\ UNCHANGED <<tools, home, pre, existing, pc, idx, task, mu, pending, unres, pass,
                   firstOK, ulog, crashed, cmd, cfg, file, cidx, configuredFonts,
                   fpending>>

\* One iteration of SyncSettings' loop; applied is whether "defaults write" exits 0.
\* The assignment to st.Settings panics when the map is nil.
SyncSettingsStep ==
    /\ crashed = "no"
    /\ UNCHANGED libVars
    /\ cmd = "settings"
    /\ cpc = "sync"
    /\ cidx <= Len(cfg.Settings)
    /\ LET s == cfg.Settings[cidx]
           key == SettingKey(s)
       IN  IF key \in DOMAIN stSettings /\ stSettings[key].Value = s.value
           THEN UNCHANGED <<stSettings, crashed>>
           ELSE \E applied \in BOOLEAN :
                  IF ~applied THEN UNCHANGED <<stSettings, crashed>>
                  ELSE IF "Settings" \in nilMaps
                       THEN crashed' = "panic" /\ UNCHANGED stSettings
                       ELSE /\ stSettings' =
                                 Put(stSettings, key,
                                     SettingState(s.domain, s.key, s.value))
                            /\ UNCHANGED crashed
    /\ cidx' = cidx + 1
    /\ UNCHANGED <<toolVars, cmd, cfg, file, stFonts, nilMaps, cpc, configuredFonts,
                   fpending>>

\* SyncSettings returns.
SyncSettingsEnd ==
    /\ crashed = "no"
    /\ UNCHANGED libVars
    /\ cmd = "settings"
    /\ cpc = "sync"
    /\ cidx > Len(cfg.Settings)
    /\ cpc' = "save"
    /\ UNCHANGED <<toolVars, crashed, cmd, cfg, file, stSettings, stFonts, nilMaps,
                   cidx, configuredFonts, fpending>>

\* What installFont returns: an error, no file, or the Regular face it copied.
FontOutcomes == {"err", "none", "files"}

\* One iteration of SyncFonts' first loop. The assignment to st.Fonts panics when
\* the map is nil.
SyncFontsStep ==
    /\ crashed = "no"
    /\ UNCHANGED libVars
    /\ cmd = "fonts"
    /\ cpc = "sync"
    /\ cidx <= Len(cfg.Fonts)
    /\ LET font == cfg.Fonts[cidx]
           url == FontURL(font)
       IN  IF font.source # "github"
           THEN UNCHANGED <<configuredFonts, stFonts, crashed>>
           ELSE /\ configuredFonts' = configuredFonts \cup {font.name}
                /\ IF font.name \in DOMAIN stFonts /\ stFonts[font.name].URL = url
                   THEN UNCHANGED <<stFonts, crashed>>
                   ELSE \E out \in FontOutcomes :
                          IF out # "files" THEN UNCHANGED <<stFonts, crashed>>
                          ELSE IF "Fonts" \in nilMaps
                               THEN crashed' = "panic" /\ UNCHANGED stFonts
                               ELSE /\ stFonts' =
                                         Put(stFonts, font.name,
                                             FontState(font.name, url,
                                                       <<FontFile(font.name, home)>>))
                                    /\ UNCHANGED crashed
    /\ cidx' = cidx + 1
    /\ UNCHANGED <<toolVars, cmd, cfg, file, stSettings, nilMaps, cpc, fpending>>

\* The first loop ends and the removal loop begins to range over st.Fonts.
SyncFontsLoopEnd ==
    /\ crashed = "no"
    /\ UNCHANGED libVars
    /\ cmd = "fonts"
    /\ cpc = "sync"
    /\ cidx > Len(cfg.Fonts)
    /\ cpc' = "remove"
    /\ fpending' = DOMAIN stFonts
    /\ UNCHANGED <<toolVars, crashed, cmd, cfg, file, stSettings, stFonts, nilMaps,
                   cidx, configuredFonts>>

\* One iteration of SyncFonts' removal loop.
SyncFontsRemove(n) ==
    /\ crashed = "no"
    /\ UNCHANGED libVars
    /\ cmd = "fonts"
    /\ cpc = "remove"
    /\ n \in fpending
    /\ fpending' = fpending \ {n}
    /\ IF n \in configuredFonts THEN UNCHANGED stFonts
       ELSE \E removable \in SUBSET DOMAIN stFonts[n].Files :
              stFonts' = IF uninstallFont(n, stFonts[n], removable)
                         THEN Delete(stFonts, n) ELSE stFonts
    /\ UNCHANGED <<toolVars, crashed, cmd, cfg, file, stSettings, nilMaps, cpc, cidx,
                   configuredFonts>>

\* SyncFonts returns.
SyncFontsEnd ==
    /\ crashed = "no"
    /\ UNCHANGED libVars
    /\ cmd = "fonts"
    /\ cpc = "remove"
    /\ fpending = {}
    /\ cpc' = "save"
    /\ UNCHANGED <<toolVars, crashed, cmd, cfg, file, stSettings, stFonts, nilMaps,
                   cidx, configuredFonts, fpending>>

\* st as SaveState receives it.
CurrentState ==
    [Tools |-> IF "Tools" \in nilMaps THEN NilMap ELSE MakeMap(stTools),
     Settings |-> IF "Settings" \in nilMaps THEN NilMap ELSE MakeMap(stSettings),
     Fonts |-> IF "Fonts" \in nilMaps THEN NilMap ELSE MakeMap(stFonts)]

\* What os.WriteFile does: writes all, fails to open, or fails after truncating.
WriteOutcomes == {"written", "notopened", "truncated"}

\* config.SaveState(statePath, st)
SaveState ==
    /\ crashed = "no"
    /\ UNCHANGED <<assetVars, archiveVars, seen, jobVars, route>>
    /\ cpc = "save"
    /\ \E out \in WriteOutcomes :
         file' = CASE out = "written" -> Marshal(CurrentState)
                   [] out = "notopened" -> file
                   [] OTHER -> StateFile("corrupt", Absent, Absent, Absent)
    /\ disk' = [content |-> file', len |-> StateKeys]
    /\ cpc' = "end"
    /\ UNCHANGED <<toolVars, crashed, cmd, cfg, stSettings, stFonts, nilMaps, cidx,
                   configuredFonts, fpending>>

NextCommands ==
    \/ Load
    \/ SyncSettingsStep
    \/ SyncSettingsEnd
    \/ SyncFontsStep
    \/ SyncFontsLoopEnd
    \/ \E n \in FontNames : SyncFontsRemove(n)
    \/ SyncFontsEnd
    \/ SaveState

\* The settings and fonts commands, from LoadState to SaveState.
SpecCommands == InitCommands /\ [][NextCommands]_vars

\* ------------------------------------------------------------------ removal runs

\* The paths a record of name n may hold: under each prefix uninstallTool
\* recognises, elsewhere, and none.
RecordedPaths(n, h) ==
    {BrewBin \o NameStr(n),
     Join(<<h, <<"go">>, <<"bin">>, NameStr(n)>>),
     Join(<<h, <<".cargo">>, <<"bin">>, NameStr(n)>>),
     Join(<<UsrLocalBin, NameStr(n)>>),
     Applications,
     <<>>}

\* The states whose entries hold those paths.
RecordedStates(h) ==
    UNION {{f \in [D -> {ToolState("1", p, TRUE) : p \in UNION {RecordedPaths(n, h) : n \in D}}] :
              \A n \in D : f[n].InstallPath \in RecordedPaths(n, h)} : D \in SUBSET Names}

\* SyncTools is called with an empty desired list: every entry is stale.
InitRemoval ==
    /\ tools = <<>>
    /\ home \in Homes
    /\ stTools \in RecordedStates(home)
    /\ pre = stTools
    /\ existing = {}
    /\ pc = "loop"
    /\ idx = 1
    /\ task = <<>>
    /\ mu = 0
    /\ pending = {}
    /\ unres = [n \in Names |-> "none"]
    /\ pass = 1
    /\ firstOK = FALSE
    /\ ulog = NoCall
    /\ crashed = "no"
    /\ cmd = "tools"
    /\ cfg = [Settings |-> <<>>, Fonts |-> <<>>]
    /\ file = StateFile("json", Object(stTools), Absent, Absent)
    /\ stSettings = LoadState(file).Settings.m
    /\ stFonts = LoadState(file).Fonts.m
    /\ nilMaps = {k \in {"Tools", "Settings", "Fonts"} : LoadState(file)[k].nil}
    /\ cpc = "sync"
    /\ cidx = 1
    /\ configuredFonts = {}
    /\ fpending = {}
    /\ LibIdle

NextRemoval ==
    \/ LoopEnd
    \/ Wait
    \/ \E n \in Names : Remove(n)
    \/ Return

\* Passes that only remove, over records of every kind of path.
SpecRemoval == InitRemoval /\ [][NextRemoval]_vars

\* ------------------------------------------------------------------ asset selection

progVars == <<toolVars, crashed, cmdVars>>

StartIdleAt(homes) ==
    /\ tools = <<>>
    /\ home \in homes
    /\ stTools = <<>>
    /\ pre = <<>>
    /\ existing = {}
    /\ pc = "loop"
    /\ idx = 1
    /\ task = <<>>
    /\ mu = 0
    /\ pending = {}
    /\ unres = [n \in Names |-> "none"]
    /\ pass = 1
    /\ firstOK = FALSE
    /\ ulog = NoCall
    /\ crashed = "no"
    /\ cmd = "tools"
    /\ cfg = [Settings |-> <<>>, Fonts |-> <<>>]
    /\ file = StateFile("missing", Absent, Absent, Absent)
    /\ stSettings = <<>>
    /\ stFonts = <<>>
    /\ nilMaps = {"Fonts"}
    /\ cpc = "sync"
    /\ cidx = 1
    /\ configuredFonts = {}
    /\ fpending = {}

StartIdle == StartIdleAt({UsrHomeDir})

\* A release has been decoded, by either copy of the download.
InitAssets ==
    /\ StartIdle
    /\ NoArchive
    /\ NoSave
    /\ NoJobs
    /\ NoRoute
    /\ release \in [variant : Variants, assets : SeqsUpTo(Assets, MaxAssets)]
    /\ picked = NotPicked

\* The selection loop runs over release.Assets.
Select ==
    /\ ~picked.done
    /\ picked' = [done |-> TRUE, index |-> SelectAsset(release.assets, release.variant)]
    /\ UNCHANGED <<progVars, release, archiveVars, saveVars, jobVars, route>>

NextAssets == Select

\* The selection of a release asset, over every short release.
SpecAssets == InitAssets /\ [][NextAssets]_vars

\* ------------------------------------------------------------------ extraction

\* An archive has been downloaded to /tmp.
InitExtract ==
    /\ StartIdle
    /\ NoRelease
    /\ NoSave
    /\ NoJobs
    /\ NoRoute
    /\ archive \in [src : ArchivePaths, entries : Archives, env : CopyEnvs]
    /\ installed = NotExtracted

\* extractAndInstall(tmp, "/tmp/") runs to its return.
Extract ==
    /\ ~installed.done
    /\ installed' = [done |-> TRUE,
                     out |-> ExtractAndInstall(archive.src, TmpDir, archive.entries,
                                               home, archive.env),
                     root |-> IF ArchiveFormat(archive.src) = "unsupported" THEN <<>>
                              ELSE ExtractedPath(TmpDir, archive.entries),
                     files |-> IF ArchiveFormat(archive.src) = "unsupported" THEN {}
                               ELSE ExtractedFiles(archive.src, TmpDir, archive.entries)]
    /\ UNCHANGED <<progVars, assetVars, archive, saveVars, jobVars, route>>

NextExtract == Extract

\* ExtractAndInstall over every small archive and every outcome of the copies.
SpecExtract == InitExtract /\ [][NextExtract]_vars

\* ------------------------------------------------------------------ saving

\* os.WriteFile opens the state file with O_WRONLY|O_CREATE|O_TRUNC: the file is
\* empty from then on, unless the open fails.
SaveOpen ==
    /\ crashed = "no"
    /\ cpc = "save"
    /\ \E opened \in BOOLEAN :
         IF opened
         THEN /\ disk' = [content |-> Marshal(CurrentState), len |-> 0]
              /\ file' = StateFile("corrupt", Absent, Absent, Absent)
              /\ cpc' = "write"
         ELSE /\ disk' = disk
              /\ file' = file
              /\ cpc' = "end"
    /\ UNCHANGED <<toolVars, crashed, cmd, cfg, stSettings, stFonts, nilMaps, cidx,
                   configuredFonts, fpending, assetVars, archiveVars, seen, jobVars,
                   route>>

\* os.WriteFile writes the marshalled bytes: a write call adds some of what is
\* left, or fails and ends the save.
SaveWrite ==
    /\ crashed = "no"
    /\ cpc = "write"
    /\ \E n \in disk.len .. StateKeys :
         /\ disk' = [disk EXCEPT !.len = n]
         /\ file' = IF n = StateKeys THEN disk.content ELSE file
         /\ cpc' = IF n = disk.len \/ n = StateKeys THEN "end" ELSE "write"
    /\ UNCHANGED <<toolVars, crashed, cmd, cfg, stSettings, stFonts, nilMaps, cidx,
                   configuredFonts, fpending, assetVars, archiveVars, seen, jobVars,
                   route>>

\* Another process reads the state file as it is now.
Read ==
    /\ disk.content.kind # "missing"
    /\ seen' = [read |-> TRUE, content |-> disk.content, len |-> disk.len]
    /\ seen' # seen
    /\ UNCHANGED <<progVars, assetVars, archiveVars, disk, jobVars, route>>

NextSave ==
    \/ Load
    \/ SyncSettingsStep
    \/ SyncSettingsEnd
    \/ SyncFontsStep
    \/ SyncFontsLoopEnd
    \/ \E n \in FontNames : SyncFontsRemove(n)
    \/ SyncFontsEnd
    \/ SaveOpen
    \/ SaveWrite
    \/ Read

\* The settings and fonts commands with SaveState's write in its steps, and a
\* reader of the state file.
SpecSave == InitCommands /\ [][NextSave]_vars

\* ------------------------------------------------------------------ concurrent installs

\* The URLs of the two tasks: two hosts serving files of the same names.
JobURLs ==
    {<<"https:", Slash, Slash, h, Slash>> \o f :
        h \in {"g", "h"}, f \in {<<"t", "-", "1.0", ".tar.gz">>, <<"u", ".zip">>}}

\* The archives behind the URLs: every file in them is executable.
JobArchives ==
    {a \in Archives : \A i \in DOMAIN a : a[i].type = "reg" => a[i].perm /\ a[i].magic}

\* tmp := "/tmp/" + path.Base(tool.URL)
TmpFile(url) == TmpDir \o Base(url)

\* Every copy succeeds in /usr/local/bin.
AllWritable ==
    LET names == {FileNames[i] : i \in DOMAIN FileNames}
    IN  [sys |-> names, usr |-> names, mkdir |-> TRUE]

\* SyncTools has started the goroutines of two tools of distinct names with source
\* url.
InitJobs ==
    /\ StartIdle
    /\ NoRelease
    /\ NoArchive
    /\ NoSave
    /\ NoRoute
    /\ jobs \in {<<[name |-> "a", url |-> u1, entries |-> e1],
                    [name |-> "b", url |-> u2, entries |-> e2]>> :
                    u1 \in JobURLs, u2 \in JobURLs, e1 \in JobArchives, e2 \in JobArchives}
    /\ jpc = <<"download", "download">>
    /\ wrote = <<{}, {}>>

\* curl -L tool.URL -o tmp
Download(i) ==
    /\ jpc[i] = "download"
    /\ wrote' = [wrote EXCEPT ![i] = @ \cup {TmpFile(jobs[i].url)}]
    /\ jpc' = [jpc EXCEPT ![i] = "extract"]
    /\ UNCHANGED <<progVars, assetVars, archiveVars, saveVars, jobs, route>>

\* extractArchive(tmp, "/tmp/") inside extractAndInstall
Unpack(i) ==
    /\ jpc[i] = "extract"
    /\ wrote' = [wrote EXCEPT ![i] = @ \cup
                   {f.path : f \in ExtractedFiles(TmpFile(jobs[i].url), TmpDir,
                                                  jobs[i].entries)}]
    /\ jpc' = [jpc EXCEPT ![i] = "copy"]
    /\ UNCHANGED <<progVars, assetVars, archiveVars, saveVars, jobs, route>>

\* The copy loop of extractAndInstall
Copy(i) ==
    /\ jpc[i] = "copy"
    /\ LET out == ExtractAndInstall(TmpFile(jobs[i].url), TmpDir, jobs[i].entries,
                                    home, AllWritable)
       IN  wrote' = [wrote EXCEPT ![i] = @ \cup
                       {out.written[k].dst : k \in DOMAIN out.written}]
    /\ jpc' = [jpc EXCEPT ![i] = "done"]
    /\ UNCHANGED <<progVars, assetVars, archiveVars, saveVars, jobs, route>>

NextJobs ==
    \/ \E i \in 1 .. 2 : Download(i)
    \/ \E i \in 1 .. 2 : Unpack(i)
    \/ \E i \in 1 .. 2 : Copy(i)

\* Two install tasks of one pass, interleaved.
SpecJobs == InitJobs /\ [][NextJobs]_vars

\* ------------------------------------------------------------------ install, then uninstall

\* The names of the tools followed from install to uninstall.
RouteNames == {"a", "b", ""}

\* os.Getenv("HOME") in those runs: a home directory, unset, the root directory and
\* the package manager's directory.
RouteHomes == Homes \cup {<<Slash>>, Clean(BrewBin)}

\* The tools of those runs: the source kinds whose install path is built from the
\* tool name.
RouteTools ==
    {Tool(n, "1", s, <<>>) : n \in RouteNames, s \in {"brew", "go", "rustup"}}

InitRouting ==
    /\ StartIdleAt(RouteHomes)
    /\ NoRelease
    /\ NoArchive
    /\ NoSave
    /\ NoJobs
    /\ route \in {[NotRouted EXCEPT !.tool = t] : t \in RouteTools}

\* installTool(tool) runs to its end in a task of SyncTools.
RouteInstall ==
    /\ ~route.installed
    /\ \E ext \in ExtOf(route.tool) :
         route' = [route EXCEPT !.installed = TRUE,
                                !.res = installTool(route.tool, home, ext)]
    /\ UNCHANGED <<progVars, assetVars, archiveVars, saveVars, jobVars>>

\* A later pass finds the record the install left, the tool gone from the desired
\* list, and calls uninstallTool(name, toolState).
RouteUninstall ==
    /\ route.installed
    /\ route.res.ok
    /\ ~route.removed
    /\ \E ux \in UExtOf(route.res.path, home) :
         route' = [route EXCEPT !.removed = TRUE,
                                !.steps = UninstallSteps(route.tool.name,
                                              NewRecord(route.tool, route.res.path),
                                              home, ux)]
    /\ UNCHANGED <<progVars, assetVars, archiveVars, saveVars, jobVars>>

NextRouting ==
    \/ RouteInstall
    \/ RouteUninstall

\* One tool of a path-building source kind, installed and then uninstalled, over
\* every name and HOME value.
SpecRouting == InitRouting /\ [][NextRouting]_vars

\* ------------------------------------------------------------------ claims

\* The names of the desired list.
ToolNames == {tools[i].name : i \in DOMAIN tools}

\* The positions of the desired list whose install was attempted in this pass.
Attempted == {i \in DOMAIN task : task[i].st \notin {"idle", "skip"}}

\* The entries of the pass's initial state that are absent from the desired list.
Stale == DOMAIN pre \ ToolNames

\* C1: a second pass run right after a first pass that succeeded, with the same
\* list, attempts no install and no uninstall and leaves the tool mapping as it
\* found it.
C1_SecondPassIsNoOp ==
    (pass = 2 /\ firstOK) =>
        /\ Attempted = {}
        /\ \A n \in Names : unres[n] = "none"
        /\ stTools = pre

\* C2: at the end of a pass, a stale entry is gone if and only if uninstallTool
\* returned true for it; when it returned false the entry is still there, with the
\* record it had when the pass began.
C2_StaleGoneIffUninstalled ==
    pc = "done" =>
        \A n \in Stale :
            /\ unres[n] \in {"ok", "fail"}
            /\ n \notin DOMAIN stTools <=> unres[n] = "ok"
            /\ unres[n] = "fail" => (n \in DOMAIN stTools /\ stTools[n] = pre[n])

\* A finished pass in which one stale entry was uninstalled and another was not.
C2_Witness ==
    /\ pc = "done"
    /\ \E n, m \in Stale : unres[n] = "ok" /\ unres[m] = "fail"

\* The record of name n is what it was when the pass began (or is still absent).
SameAsBefore(n) ==
    IF n \in DOMAIN pre THEN n \in DOMAIN stTools /\ stTools[n] = pre[n]
    ELSE n \notin DOMAIN stTools

\* C3: a failed install writes no record and leaves the tool's prior record as it
\* was, a failed uninstall leaves the record as it was, and in both cases the pass
\* goes on: the process is not stopped, and a pass that has ended has carried out
\* every install and uninstall it scheduled.
C3_FailuresAreIsolated ==
    /\ \A i \in DOMAIN task :
         (/\ task[i].st \in {"failed", "panic"}
          /\ \A j \in DOMAIN task : tools[j].name = tools[i].name => j = i)
            => SameAsBefore(tools[i].name)
    /\ \A n \in Names : unres[n] = "fail" => SameAsBefore(n)
    /\ (\/ \E i \in DOMAIN task : task[i].st \in {"failed", "panic"}
        \/ \E n \in Names : unres[n] = "fail")
            => crashed = "no"

\* C5: no uninstall is attempted and no record is deleted while an install task of
\* the pass is still running: the removal loop runs only once every task that was
\* started has finished.
C5_RemovalAfterInstalls ==
    /\ pc \in {"remove", "done"} => \A i \in DOMAIN task : Finished(i)
    /\ (\E i \in DOMAIN task : ~Finished(i)) =>
          /\ \A n \in Names : unres[n] = "none"
          /\ DOMAIN pre \subseteq DOMAIN stTools

\* The removal loop has called uninstallTool after an install of the pass wrote
\* its record.
C5_Witness ==
    /\ pc = "remove"
    /\ \E n \in Names : unres[n] # "none"
    /\ \E i \in DOMAIN task : task[i].st = "done"

\* C4: for every source kind, a successful installTool returned a non-empty path,
\* and the record the task has just written carries the desired version string as
\* given (a sentinel stays a sentinel) and the returned path.
C4_SuccessRecordsDesiredVersion ==
    \A i \in DOMAIN task :
        /\ task[i].st \in {"got", "cs", "wr", "done"} =>
              /\ tools[i].source \in KnownSources
              /\ task[i].res.ok
              /\ task[i].res.path # <<>>
        /\ task[i].st = "wr" =>
              /\ tools[i].name \in DOMAIN stTools
              /\ stTools[tools[i].name].Version = tools[i].version
              /\ stTools[tools[i].name].InstallPath = task[i].res.path

\* A go tool whose desired version is a sentinel has been installed with HOME unset
\* and its record has just been written.
C4_Witness ==
    \E i \in DOMAIN task :
        /\ task[i].st = "wr"
        /\ tools[i].source = "go"
        /\ tools[i].version = "latest"
        /\ home = <<>>

\* C6: a task is inside the critical section only as the holder of the mutex, so at
\* most one is; the holder is never a task whose installTool call is running; and
\* during the install phase the tool mapping changes only by the holder's write.
C6_WritesUnderTheMutex ==
    /\ [](\A i \in DOMAIN task : task[i].st \in {"cs", "wr"} <=> mu = i)
    /\ [][(stTools' # stTools /\ pc \in {"loop", "wait"}) =>
             (mu # 0 /\ mu' = mu /\ task[mu].st = "cs" /\ task'[mu].st = "wr")]_vars

\* One task is writing while another, its installTool done, waits for the mutex.
C6_Witness ==
    \E i, j \in DOMAIN task :
        /\ task[i].st = "cs"
        /\ task[j].st = "got"

\* C7: whenever the scheduling loop reads an existing record, no install task of
\* the pass has been started yet.
C7_ReadsBeforeInstallPhase ==
    [][idx' = idx + 1 => \A i \in DOMAIN task : task[i].st \in {"idle", "skip"}]_vars

\* C8: once LoadState has returned, no mapping of the state is nil, and no write
\* into a mapping stops the command.
C8_MappingsNeverNil ==
    /\ cpc # "load" => nilMaps = {}
    /\ cmd \in {"settings", "fonts"} => crashed = "no"

\* C9: no call of installTool ends in a panic.
C9_InstallToolNeverPanics ==
    \A i \in DOMAIN task : ~task[i].res.panicked /\ task[i].st # "panic"

Tried == {ulog.steps[i].strategy : i \in DOMAIN ulog.steps}

\* C11 (as stated): uninstallTool returns false only at the end of the chain, after
\* the glob removal, the last strategy, has been tried.
C11_FalseOnlyAtEndOfChain ==
    (ulog.called /\ ~ulog.ok) => 6 \in Tried

\* C11 (amended): the calls follow the fixed order; a path under the package
\* manager's, the language installer's or the toolchain manager's directory selects
\* that one strategy and its outcome is final; any other path goes through direct
\* removal, package-database forget and glob removal, and the result is false only
\* after all of them were tried; nothing is tried after a success.
C11_PrefixSelectsElseChain ==
    ulog.called =>
        LET s == StrategyOf(ulog.path, home)
            steps == ulog.steps
        IN  /\ \A i, j \in DOMAIN steps : i < j => steps[i].strategy <= steps[j].strategy
            /\ s = "brew" => Tried = {1}
            /\ s = "go" => Tried = {2}
            /\ s = "rustup" => Tried = {3}
            /\ s = "direct" =>
                  /\ Tried \subseteq {4, 5, 6}
                  /\ ~ulog.ok => ({5, 6} \subseteq Tried /\ (ulog.path # <<>> => 4 \in Tried))
            /\ ulog.ok => (steps # <<>> /\ steps[Len(steps)].ok)
            /\ \A i \in DOMAIN steps :
                  (steps[i].ok /\ steps[i].call \notin
                       {"rustup show", "pkgutil --pkgs", "filepath.Glob"}) => i = Len(steps)

\* brew uninstall failed and uninstallTool returned false with nothing else tried.
C11_Witness ==
    /\ ulog.called
    /\ ~ulog.ok
    /\ ulog.steps = <<Step(1, "brew uninstall", FALSE, "")>>

\* The logged call took the toolchain branch, the active toolchain is not the system
\* one, and the removal of the recorded file failed.
RemovalFailedUnderToolchain ==
    /\ ulog.called
    /\ Len(ulog.steps) >= 2
    /\ ulog.steps[1] = Step(3, "rustup show", TRUE, "stable")
    /\ ulog.steps[2] = Step(3, "os.Remove", FALSE, "")

\* C12 (as stated): when the removal of the recorded file fails, cargo uninstall is
\* invoked and its exit status is the result.
C12_CargoAfterFailedRemoval ==
    RemovalFailedUnderToolchain =>
        \E i \in DOMAIN ulog.steps :
            /\ ulog.steps[i].call = "cargo uninstall"
            /\ ulog.ok = ulog.steps[i].ok

\* C12 (amended): when the removal of the recorded file fails, uninstallTool returns
\* false at once; cargo uninstall is invoked exactly when the active-toolchain query
\* itself fails, and then its exit status is the result.
C12_CargoOnlyAfterFailedQuery ==
    (ulog.called /\ StrategyOf(ulog.path, home) = "rustup") =>
        /\ RemovalFailedUnderToolchain => (Len(ulog.steps) = 2 /\ ~ulog.ok)
        /\ (\E i \in DOMAIN ulog.steps : ulog.steps[i].call = "cargo uninstall")
              <=> ulog.steps[1] = Step(3, "rustup show", FALSE, "")
        /\ ulog.steps[1] = Step(3, "rustup show", FALSE, "") =>
              (Len(ulog.steps) = 2 /\ ulog.ok = ulog.steps[2].ok)

\* The removal failed under a non-system toolchain and the call returned false.
C12_Witness ==
    /\ RemovalFailedUnderToolchain
    /\ ~ulog.ok

\* C13: when the active-toolchain query succeeds and names the system toolchain,
\* uninstallTool makes no other call and returns false, and the removal loop leaves
\* the record as it was.
C13_SystemToolchainRefused ==
    (ulog.called /\ ulog.steps # <<>> /\ ulog.steps[1].out = "system") =>
        /\ ulog.steps = <<Step(3, "rustup show", TRUE, "system")>>
        /\ ~ulog.ok
        /\ unres[ulog.name] = "fail"
        /\ SameAsBefore(ulog.name)

\* The removal loop has just been refused the removal of a toolchain component whose
\* file could have been removed.
C13_Witness ==
    /\ ulog.called
    /\ ulog.steps = <<Step(3, "rustup show", TRUE, "system")>>
    /\ ulog.name \in DOMAIN stTools
    /\ pc = "remove"

\* The positions of the patterns the asset at position i contains.
RanksOf(i) ==
    LET pats == PreferredPatterns(release.variant)
    IN  {k \in DOMAIN pats : Contains(ToLower(release.assets[i].name), pats[k])}

\* The asset at position i has a recognized archive suffix.
Eligible(i) ==
    \E sfx \in ArchiveSuffixes(release.variant) :
        HasSuffix(ToLower(release.assets[i].name), <<sfx>>)

\* The eligible assets that contain at least one pattern.
Candidates == {i \in DOMAIN release.assets : Eligible(i) /\ RanksOf(i) # {}}

\* The smallest number of a non-empty set of numbers.
Least(S) == CHOOSE k \in S : \A l \in S : k <= l

\* C14: the selected asset is the first one, in listing order, that contains the
\* highest-priority pattern contained in any eligible asset (pattern priority first,
\* listing order second); no asset is selected only when no eligible asset contains
\* a pattern.
C14_PatternPriorityThenListingOrder ==
    picked.done =>
        IF Candidates = {} THEN picked.index = 0
        ELSE LET best == Least(UNION {RanksOf(i) : i \in Candidates})
             IN  picked.index = Least({i \in Candidates : best \in RanksOf(i)})

\* A later asset with a higher-priority pattern was selected over an earlier eligible
\* asset with a lower-priority one.
C14_Witness ==
    /\ picked.done
    /\ picked.index = 2
    /\ 1 \in Candidates
    /\ Least(RanksOf(2)) < Least(RanksOf(1))

\* C15 as stated: of two eligible assets that each contain a pattern of the list, the
\* later one is never the one selected.
C15_EarlierOfAnyTwoMatching ==
    picked.done =>
        \A i \in Candidates : \A j \in Candidates : i < j => picked.index # j

\* C15: some asset is selected whenever an eligible asset contains a pattern, and of
\* two such assets the later one is selected only when its best pattern has higher
\* priority than the earlier one's best pattern.
C15_EarlierUnlessLowerPriority ==
    picked.done =>
        /\ Candidates # {} => picked.index \in Candidates
        /\ \A i \in Candidates : \A j \in Candidates :
              (i < j /\ picked.index = j) => Least(RanksOf(j)) < Least(RanksOf(i))

\* Two eligible assets share their best pattern and the earlier one was selected.
C15_Witness ==
    /\ picked.done
    /\ picked.index = 1
    /\ 2 \in Candidates
    /\ Least(RanksOf(2)) = Least(RanksOf(1))

\* The regular members of the archive.
RegularEntries == {archive.entries[i] : i \in {j \in DOMAIN archive.entries : archive.entries[j].type = "reg"}}

\* C16: for an archive of a supported format none of whose members has an execute bit
\* or an executable content, ExtractAndInstall returns the "no binary found" error
\* and has copied nothing, whether the top-level member is a directory or a file.
C16_NoExecutableIsNoBinaryFound ==
    (/\ installed.done
     /\ ArchiveFormat(archive.src) # "unsupported"
     /\ \A e \in RegularEntries : ~e.perm /\ ~e.magic)
    => /\ installed.out.err = "no binary found in folder"
       /\ installed.out.written = <<>>

\* C17: for an archive of a supported format made of one top-level directory holding
\* one file f with an execute bit, and copies that can be written, ExtractAndInstall
\* succeeds and the base name of the returned path is that of f.
C17_RoundTripKeepsBaseName ==
    (/\ installed.done
     /\ ArchiveFormat(archive.src) # "unsupported"
     /\ Len(archive.entries) = 2
     /\ archive.entries[1].type = "dir"
     /\ archive.entries[2].perm
     /\ Base(archive.entries[2].name) \in archive.env.sys)
    => /\ installed.out.err = ""
       /\ Base(installed.out.path) = Base(archive.entries[2].name)

\* C18: when ExtractAndInstall succeeds, the path it returns is the path the first
\* binary was written to.
C18_ReturnsWhereFirstBinaryWent ==
    (installed.done /\ installed.out.err = "")
    => installed.out.path = installed.out.written[1].dst

\* C19: whatever another process reads from the state file while SaveState runs is a
\* complete file, the one there before the save or the one being saved, never an
\* empty or truncated one.
C19_ReaderSeesWholeFile == seen.read => seen.len = StateKeys

\* C20: two install tasks of one pass for tools of distinct names have written no
\* path in common: temporary download, extracted files, copied binaries.
C20_TasksWriteDistinctPaths ==
    (jobs # <<>> /\ jobs[1].name # jobs[2].name) => wrote[1] \cap wrote[2] = {}

\* C21: uninstallTool is called for the entries of the prior state whose name is
\* absent from the desired list and for no other name, once each (an entry the
\* removal loop has handled is not visited again), every one of them by the end of
\* the pass; and a recorded tool named in the desired list keeps a record, even
\* when its install failed.
C21_UninstallExactlyTheStale ==
    /\ \A n \in Names : unres[n] # "none" => (n \in Stale /\ n \notin pending)
    /\ ulog.called => ulog.name \in Stale
    /\ pc = "done" => \A n \in Stale : unres[n] # "none"
    /\ \A n \in ToolNames \cap DOMAIN pre : n \in DOMAIN stTools

\* A pass has ended in which the upgrade of a recorded tool failed and a stale entry
\* was uninstalled.
C21_Witness ==
    /\ pc = "done"
    /\ \E i \in DOMAIN task : task[i].st = "failed" /\ tools[i].name \in DOMAIN pre
    /\ \E n \in Stale : unres[n] = "ok"

\* $HOME/bin
HomeBin == Join(<<home, <<"bin">>>>)

\* C22: in one call, copyBinary is called at most twice for a binary, the second
\* time on $HOME/bin after the first call failed; after a failed copy to
\* /usr/local/bin no later call uses /usr/local/bin; and when the fallback copy of a
\* binary fails the call returns an error and no path.
C22_FallbackIsSticky ==
    installed.done =>
        LET T == installed.out.tried
        IN  /\ \A k \in DOMAIN T : \A l \in DOMAIN T :
                  (k < l /\ T[k].src = T[l].src) =>
                      /\ l = k + 1
                      /\ ~T[k].ok
                      /\ T[l].dir = HomeBin
                      /\ \A j \in DOMAIN T : T[j].src = T[k].src => j \in {k, l}
            /\ \A k \in DOMAIN T : \A l \in DOMAIN T :
                  (k < l /\ T[k].dir = UsrLocalBin /\ ~T[k].ok) => T[l].dir = HomeBin
            /\ \A l \in DOMAIN T :
                  (l > 1 /\ T[l - 1].src = T[l].src /\ ~T[l].ok) =>
                      (installed.out.err # "" /\ installed.out.path = <<>>)

\* The first binary fell back to $HOME/bin and the second one was copied there
\* directly.
C22_Witness ==
    /\ installed.done
    /\ installed.out.err = ""
    /\ Len(installed.out.tried) = 3
    /\ ~installed.out.tried[1].ok
    /\ installed.out.tried[3].dir = HomeBin
    /\ installed.out.tried[3].src # installed.out.tried[1].src

\* The file the extraction wrote for the archive member e.
WrittenFor(e) == CHOOSE f \in installed.files : f.path = Join(<<TmpDir, e.name>>)

\* C23: after an extraction, the file written for a regular member has the member's
\* declared execute permission when the archive is a tar or a 7z archive, and is
\* executable (mode 0755) when it is a zip archive.
C23_ExtractedModes ==
    (installed.done /\ ArchiveFormat(archive.src) # "unsupported") =>
        \A e \in RegularEntries :
            WrittenFor(e).exec = IF ArchiveFormat(archive.src) = "zip" THEN TRUE ELSE e.perm

\* C24 as stated: for an archive whose members have more than one top-level path
\* element, the extractor returns the first path element of the last member.
C24_LastSeenTopLevelWins ==
    (/\ installed.done
     /\ ArchiveFormat(archive.src) # "unsupported"
     /\ \E i, j \in DOMAIN archive.entries :
           FirstSegment(archive.entries[i].name) # FirstSegment(archive.entries[j].name))
    => installed.root
         = Join(<<TmpDir, FirstSegment(archive.entries[Len(archive.entries)].name)>>)

\* C24: for such an archive the extractor returns the first path element of the
\* first member, for every supported format.
C24_FirstSeenTopLevelWins ==
    (/\ installed.done
     /\ ArchiveFormat(archive.src) # "unsupported"
     /\ \E i, j \in DOMAIN archive.entries :
           FirstSegment(archive.entries[i].name) # FirstSegment(archive.entries[j].name))
    => installed.root = Join(<<TmpDir, FirstSegment(archive.entries[1].name)>>)

\* An archive of two top-level files has been extracted.
C24_Witness ==
    /\ installed.done
    /\ installed.root # <<>>
    /\ Len(archive.entries) = 2
    /\ FirstSegment(archive.entries[1].name) # FirstSegment(archive.entries[2].name)

\* C25: every pass eventually finishes, and when it has finished every install it
\* started has run to its end, succeeded or failed, and every stale entry has had
\* its uninstall attempt.
C25_EveryPassFinishes ==
    /\ <>(pc = "done")
    /\ [](pc = "done" =>
            /\ \A i \in DOMAIN task : task[i].st \in {"skip", "done", "failed"}
            /\ \A n \in Stale : unres[n] # "none")

\* C26: the uninstall of a record whose install path is /Applications, the shared
\* location recorded for installer packages, never calls the recursive removal on
\* that path.
C26_SharedLocationNeverRemovedRecursively ==
    (ulog.called /\ ulog.path = Applications) =>
        \A k \in DOMAIN ulog.steps : ulog.steps[k].call # "os.RemoveAll"

\* The calls of the logged uninstall that can take something away, with success.
Removals ==
    {k \in DOMAIN ulog.steps :
        /\ ulog.steps[k].ok
        /\ ulog.steps[k].call \notin {"rustup show", "pkgutil --pkgs", "filepath.Glob"}}

\* C27: uninstallTool returns true only if one of its calls removed or deregistered
\* something; when nothing exists at a non-empty recorded path, the direct removal
\* does not succeed and the package database and the glob are tried.
C27_TrueOnlyIfSomethingRemoved ==
    ulog.called =>
        /\ ulog.ok => \E k \in Removals : ulog.steps[k].out # "missing"
        /\ \A k \in DOMAIN ulog.steps :
              (ulog.steps[k].strategy = 4 /\ ulog.steps[k].out = "missing") =>
                  /\ ~ulog.steps[k].ok
                  /\ {5, 6} \subseteq Tried

RECURSIVE InOrder(_)
\* st.Tools after the first k entries of the desired list were handled one after
\* the other, each task running to its end before the next entry is read, with the
\* outcome each installTool call had in this pass.
InOrder(k) ==
    IF k = 0 THEN pre
    ELSE LET m == InOrder(k - 1)
         IN  IF NeedsInstall(m, tools[k]) /\ task[k].res.ok
             THEN Put(m, tools[k].name, NewRecord(tools[k], task[k].res.path))
             ELSE m

\* The tasks this pass started are the ones the one-after-the-other pass starts.
SameAttempts ==
    \A k \in DOMAIN tools : NeedsInstall(InOrder(k - 1), tools[k]) <=> task[k].st # "skip"

\* The map without the entries whose uninstall reported success in this pass.
AfterRemovals(m) == [n \in {x \in DOMAIN m : unres[x] # "ok"} |-> m[n]]

\* C28: with the same desired list, prior state and outcome of every install and
\* uninstall attempt, the tool mapping at the end of the pass does not depend on the
\* interleaving of the install tasks: it is the mapping of the pass in which the
\* tasks run one after the other in list order.
C28_FinalMappingIndependentOfInterleaving ==
    (pc = "done" /\ SameAttempts) => stTools = AfterRemovals(InOrder(Len(tools)))

\* The entries of the desired list whose recorded version is the desired one when
\* the pass starts.
CurrentAtStart ==
    {i \in DOMAIN tools :
        tools[i].name \in DOMAIN pre /\ pre[tools[i].name].Version = tools[i].version}

\* C29: for a desired tool whose recorded version equals its desired version at the
\* start of the pass, no install is attempted and, once the pass has ended, its
\* record is the one it had at the start; and every record the pass wrote has the
\* installed-by-this-system flag set.
C29_CurrentToolsUntouched ==
    /\ \A i \in CurrentAtStart :
          /\ task[i].st \in {"idle", "skip"}
          /\ pc = "done" =>
                /\ tools[i].name \in DOMAIN stTools
                /\ stTools[tools[i].name] = pre[tools[i].name]
    /\ \A n \in DOMAIN stTools :
          (n \notin DOMAIN pre \/ stTools[n] # pre[n]) => stTools[n].InstalledByDevSetup

\* The strategy of uninstallTool that belongs to a source kind.
StrategyOfSource(source) ==
    CASE source = "brew" -> 1
      [] source = "go" -> 2
      [] source = "rustup" -> 3
      [] OTHER -> 4

\* C30: the path installTool reports for a brew, go or rustup tool makes a later
\* uninstallTool on that record take the removal strategy of the same source kind,
\* and no call of another strategy, for every tool name and HOME value.
C30_UninstallRoutedBySource ==
    route.removed =>
        /\ route.steps # <<>>
        /\ \A k \in DOMAIN route.steps :
              route.steps[k].strategy = StrategyOfSource(route.tool.source)

====
